---- MODULE Spec2Model ----
(***************************************************************************)
(* Model of examples/contrib/mitmproxywrapper.py: the Wrapper class that   *)
(* toggles the OS X web proxy of the connected network services, either    *)
(* once (--toggle) or around a wrapped mitmproxy process, with a SIGINT    *)
(* handler that calls toggle_proxy.                                        *)
(*                                                                         *)
(* The process is one Python thread.  Its control state is a stack of      *)
(* frames: frame 1 is the call made by main (toggle_proxy or               *)
(* wrap_mitmproxy), every frame above it is an invocation of the SIGINT    *)
(* handler, which Python runs on top of whatever it interrupted and which  *)
(* returns to it.  One step is one external command (networksetup, scutil, *)
(* the wrapped process) issued by the frame on top of the stack.  No call  *)
(* in the file is inside a try block, so an exception raised by a command  *)
(* unwinds the whole stack and ends the process.                           *)
(***************************************************************************)
EXTENDS Integers, Sequences, FiniteSets, TLC

\* ---- bounds of the model
NumServices == 2
MaxSignals == 2
MaxExternal == 1
MaxExitCode == 2

\* ---- program constants
DefaultPort == 8080

Services == 1..NumServices
ExitCodes == 0..MaxExitCode

VARIABLES
    webEnabled,      \* OS: service -> web proxy (http) on?
    webTarget,       \* OS: service -> server and port of the web proxy
    secEnabled,      \* OS: service -> secure web proxy (https) on?
    secTarget,       \* OS: service -> server and port of the secure web proxy
    connected,       \* OS: the services with an IPv4 state entry
    primary,         \* OS: the service of the primary interface
    toggle,          \* args.toggle
    stack,           \* the Python call stack, main's call first
    status,          \* "running", "ok" (main returned) or "error" (exception)
    error,           \* the exception that ended the process
    exitcode,        \* returncode of the wrapped process, -1 before it ends
    cmds,            \* history: the networksetup set commands issued
    exitSeen,        \* history: service -> what the OS held when the exit phase queried it
    exitRan,         \* history: the exit phase of wrap_proxy ran to its end
    handlerCalls,    \* history: invocations of the SIGINT handler
    handlerDone,     \* history: handler invocations that returned
    externals,       \* history: changes made by other actors
    init0,           \* history: the proxy state of the OS when main started
    snapshot,        \* history: the list wrap_proxy took on entry
    run,             \* history: 1 in the first call of wrap_mitmproxy, 2 in the second
    after1,          \* history: the proxy state of the OS after the first call
    noEnabledKey,    \* OS: services whose -getwebproxy output has no Enabled line
    primaryFault,    \* OS: "none", or why the primary service cannot be resolved
    unnamed,         \* OS: service ids whose Setup entry has no UserDefinedName
    portRandom,      \* args.port_random
    sockBound,       \* main holds the socket it bound to find a free port
    port             \* the port main chose, then self.port

osVars == <<webEnabled, webTarget, secEnabled, secTarget, connected, primary>>
histVars == <<cmds, exitSeen, exitRan, handlerCalls, handlerDone, externals, init0, snapshot>>
\* what no step of toggle_proxy, wrap_mitmproxy or the handler changes
fixedVars == <<run, after1, noEnabledKey, primaryFault, unnamed, portRandom, sockBound, port>>
vars == <<webEnabled, webTarget, secEnabled, secTarget, connected, primary, toggle,
          stack, status, error, exitcode, cmds, exitSeen, exitRan, handlerCalls,
          handlerDone, externals, init0, snapshot, run, after1, noEnabledKey,
          primaryFault, unnamed, portRandom, sockBound, port>>

\* a variant of EnableTarget that names the host differently
EnableTargetWrongHost == [host |-> "localhost", port |-> DefaultPort]
\* the target enable_proxy_for_service writes: "127.0.0.1", str(self.port)
EnableTarget == [host |-> "127.0.0.1", port |-> port]
\* a target some other tool or the user configured before the run
OtherTarget == [host |-> "10.0.0.1", port |-> DefaultPort + 1]
\* the targets a service may hold before the run: one left by an earlier run
\* of this tool with the default port, or the other one
Targets == {[host |-> "127.0.0.1", port |-> DefaultPort], OtherTarget}

\* ---- pure helpers

RECURSIVE SortedSeq(_)
\* the elements of a set of services in the order scutil lists them
SortedSeq(S) ==
    IF S = {} THEN <<>>
    ELSE LET m == CHOOSE x \in S : \A y \in S : x <= y
         IN <<m>> \o SortedSeq(S \ {m})

\* `networksetup -getwebproxy service`: the lines of its output, key and value
GetWebProxyOutput(s) ==
    (IF s \in noEnabledKey
     THEN <<>>
     ELSE << <<"Enabled", IF webEnabled[s] THEN "Yes" ELSE "No">> >>)
    \o << <<"Server", webTarget[s].host>>,
          <<"Port", ToString(webTarget[s].port)>>,
          <<"Authenticated Proxy Enabled", "0">> >>

\* proxy_state_for_service: dict of the "key: value" lines
proxy_state_for_service(s) ==
    LET out == GetWebProxyOutput(s)
    IN [k \in {out[j][1] : j \in DOMAIN out} |->
           out[CHOOSE j \in DOMAIN out :
                   out[j][1] = k /\ \A l \in DOMAIN out : out[l][1] = k => l <= j][2]]

\* a variant of RaisesKeyError: a lookup that never raises (dict.get)
RaisesKeyErrorNever(s) == FALSE
\* line 68: the subscript ["Enabled"] raises KeyError when the dict has no such key
RaisesKeyError(s) == "Enabled" \notin DOMAIN proxy_state_for_service(s)

\* proxy_enabled_for_service, when the subscript does not raise
proxy_enabled_for_service(s) ==
    LET state == proxy_state_for_service(s)
    IN "Enabled" \in DOMAIN state /\ state["Enabled"] = "Yes"

\* line 87: (service_name,) = re.findall(...) unpacks exactly one match; a
\* listed id whose Setup entry has no UserDefinedName gives none
JoinResolvable == connected \cap unnamed = {}

\* connected_service_names, when every unpacking succeeds
connected_service_names == SortedSeq(connected)

\* a variant of PrimaryResolvable: a lookup that falls back to a default
PrimaryResolvableAlways == TRUE
\* lines 61 and 65: the unpacking of the PrimaryInterface match and the
\* subscript of the interface map both succeed
PrimaryResolvable == primaryFault = "none"

\* primary_service_name, when neither raises
primary_service_name == primary

\* variants of the conditions that write without looking at the service
ToggleDisableCondBlind(enabled, new_state) == ~new_state
EntryEnableCondBlind(enabled) == TRUE
ExitDisableCondBlind(enabled) == TRUE
\* the conditions of the three loops
ToggleDisableCond(enabled, new_state) == enabled /\ ~new_state
ToggleEnableCond(enabled, new_state) == ~enabled /\ new_state
EntryEnableCond(enabled) == ~enabled
ExitDisableCond(enabled) == enabled

\* ---- frames

Frame(fn, pc) ==
    [fn |-> fn, pc |-> pc, phase |-> IF fn = "toggle" THEN "toggle" ELSE "entry",
     names |-> <<>>, i |-> 0, new_state |-> FALSE, svc |-> 0]

Top == stack[Len(stack)]
SetTop(f) == [stack EXCEPT ![Len(stack)] = f]
Running == status = "running" /\ stack # <<>>
At(pcs) == Running /\ Top.pc \in pcs
Cur(f) == f.names[f.i]
By == IF Len(stack) > 1 THEN "handler" ELSE "main"

LoopHead(phase) ==
    CASE phase = "toggle" -> "t_read1"
      [] phase = "entry" -> "w_read"
      [] phase = "exit" -> "x_read"

LoopExit(phase) ==
    CASE phase = "toggle" -> "t_ret"
      [] phase = "entry" -> "guarded"
      [] phase = "exit" -> "x_ret"

\* enter the for loop over names
StartLoop(f, phase, names) ==
    [f EXCEPT !.phase = phase, !.names = names, !.i = 1,
              !.pc = IF names = <<>> THEN LoopExit(phase) ELSE LoopHead(phase)]

\* the next iteration of the for loop, or the statement after it
Advance(f) ==
    IF f.i < Len(f.names)
    THEN [f EXCEPT !.i = f.i + 1, !.pc = LoopHead(f.phase)]
    ELSE [f EXCEPT !.pc = LoopExit(f.phase)]

\* the service a query step asks about
ReadService(f) == IF f.pc = "t_state" THEN f.svc ELSE Cur(f)

\* a variant of OnError: the failure is swallowed and the step runs again
OnErrorRetry(st) == st
\* no call of the file is inside a try: an exception leaves every frame
OnError(st) == <<>>

\* an exception is raised in the running frame
Raise(err) ==
    /\ stack' = OnError(stack)
    /\ status' = IF OnError(stack) = <<>> THEN "error" ELSE status
    /\ error' = IF OnError(stack) = <<>> THEN err ELSE error

Cmd(f, name, ok) == [by |-> By, phase |-> f.phase, cmd |-> name, service |-> Cur(f), ok |-> ok]

\* ---- initial state: main has parsed the arguments, built the Wrapper and
\* registered the handler; it is about to call toggle_proxy or wrap_mitmproxy

\* the proxy state the claims compare
ProxyState == [web |-> webEnabled, target |-> webTarget, sec |-> secEnabled]

InitOS ==
    /\ webEnabled \in [Services -> BOOLEAN]
    /\ webTarget \in [Services -> Targets]
    /\ secEnabled \in [Services -> BOOLEAN]
    /\ secTarget = webTarget
    /\ connected \in (SUBSET Services) \ {{}}
    /\ primary \in connected

NoFaults ==
    /\ noEnabledKey = {}
    /\ primaryFault = "none"
    /\ unnamed = {}

\* lines 159, 168: port = args.port, no --port-random
InitCall ==
    /\ toggle \in BOOLEAN
    /\ stack = << IF toggle THEN Frame("toggle", "t_primary") ELSE Frame("wrap", "w_list") >>
    /\ portRandom = FALSE
    /\ sockBound = FALSE
    /\ port = DefaultPort

InitRun ==
    /\ status = "running"
    /\ error = "none"
    /\ exitcode = -1
    /\ cmds = <<>>
    /\ exitSeen = <<>>
    /\ exitRan = FALSE
    /\ handlerCalls = 0
    /\ handlerDone = 0
    /\ externals = 0
    /\ init0 = ProxyState
    /\ snapshot = <<>>
    /\ run = 1
    /\ after1 = ProxyState

Init == InitOS /\ NoFaults /\ InitCall /\ InitRun

\* ---- toggle_proxy

\* line 71: self.primary_service_name()
TogglePrimary ==
    /\ At({"t_primary"})
    /\ PrimaryResolvable
    /\ stack' = SetTop([Top EXCEPT !.svc = primary_service_name, !.pc = "t_state"])
    /\ UNCHANGED <<osVars, toggle, status, error, exitcode, histVars, fixedVars>>

\* line 71: new_state = not self.proxy_enabled_for_service(...)
ToggleNewState ==
    /\ At({"t_state"})
    /\ ~RaisesKeyError(Top.svc)
    /\ stack' = SetTop([Top EXCEPT !.new_state = ~proxy_enabled_for_service(Top.svc),
                                   !.pc = "t_list"])
    /\ UNCHANGED <<osVars, toggle, status, error, exitcode, histVars, fixedVars>>

\* line 72: for service_name in self.connected_service_names()
ToggleList ==
    /\ At({"t_list"})
    /\ JoinResolvable
    /\ stack' = SetTop(StartLoop(Top, "toggle", connected_service_names))
    /\ UNCHANGED <<osVars, toggle, status, error, exitcode, histVars, fixedVars>>

\* line 73: if self.proxy_enabled_for_service(service_name) and not new_state
ToggleCheckDisable ==
    /\ At({"t_read1"})
    /\ ~RaisesKeyError(Cur(Top))
    /\ stack' = SetTop(
          IF ToggleDisableCond(proxy_enabled_for_service(Cur(Top)), Top.new_state)
          THEN [Top EXCEPT !.pc = "dis1"]
          ELSE [Top EXCEPT !.pc = "t_read2"])
    /\ UNCHANGED <<osVars, toggle, status, error, exitcode, histVars, fixedVars>>

\* line 75: elif not self.proxy_enabled_for_service(service_name) and new_state
ToggleCheckEnable ==
    /\ At({"t_read2"})
    /\ ~RaisesKeyError(Cur(Top))
    /\ stack' = SetTop(
          IF ToggleEnableCond(proxy_enabled_for_service(Cur(Top)), Top.new_state)
          THEN [Top EXCEPT !.pc = "en1"]
          ELSE Advance(Top))
    /\ UNCHANGED <<osVars, toggle, status, error, exitcode, histVars, fixedVars>>

\* toggle_proxy returns: to main, which ends the process, or from the handler
\* to the code the signal interrupted
ToggleReturn ==
    /\ At({"t_ret"})
    /\ stack' = SubSeq(stack, 1, Len(stack) - 1)
    /\ status' = IF Len(stack) = 1 THEN "ok" ELSE status
    /\ handlerDone' = IF Len(stack) = 1 THEN handlerDone ELSE handlerDone + 1
    /\ UNCHANGED <<osVars, toggle, error, exitcode, cmds, exitSeen, exitRan,
                   handlerCalls, externals, init0, snapshot, fixedVars>>

\* ---- enable_proxy_for_service, disable_proxy_for_service

\* line 37, first pass: networksetup -setwebproxy service 127.0.0.1 port
SetWebProxy ==
    /\ At({"en1"})
    /\ webEnabled' = [webEnabled EXCEPT ![Cur(Top)] = TRUE]
    /\ webTarget' = [webTarget EXCEPT ![Cur(Top)] = EnableTarget]
    /\ cmds' = Append(cmds, Cmd(Top, "-setwebproxy", TRUE))
    /\ stack' = SetTop([Top EXCEPT !.pc = "en2"])
    /\ UNCHANGED <<secEnabled, secTarget, connected, primary, toggle, status, error,
                   exitcode, exitSeen, exitRan, handlerCalls, handlerDone, externals, init0, snapshot, fixedVars>>

\* a variant of SetSecureWebProxy: the loop stops after the web proxy
SetSecureWebProxySkipped ==
    /\ At({"en2"})
    /\ stack' = SetTop(Advance(Top))
    /\ UNCHANGED <<osVars, toggle, status, error, exitcode, histVars, fixedVars>>

\* line 37, second pass: networksetup -setsecurewebproxy service 127.0.0.1 port
SetSecureWebProxy ==
    /\ At({"en2"})
    /\ secEnabled' = [secEnabled EXCEPT ![Cur(Top)] = TRUE]
    /\ secTarget' = [secTarget EXCEPT ![Cur(Top)] = EnableTarget]
    /\ cmds' = Append(cmds, Cmd(Top, "-setsecurewebproxy", TRUE))
    /\ stack' = SetTop(Advance(Top))
    /\ UNCHANGED <<webEnabled, webTarget, connected, primary, toggle, status, error,
                   exitcode, exitSeen, exitRan, handlerCalls, handlerDone, externals, init0, snapshot, fixedVars>>

\* line 44, first pass: networksetup -setwebproxystate service Off
SetWebProxyState ==
    /\ At({"dis1"})
    /\ webEnabled' = [webEnabled EXCEPT ![Cur(Top)] = FALSE]
    /\ cmds' = Append(cmds, Cmd(Top, "-setwebproxystate", TRUE))
    /\ stack' = SetTop([Top EXCEPT !.pc = "dis2"])
    /\ UNCHANGED <<webTarget, secEnabled, secTarget, connected, primary, toggle, status,
                   error, exitcode, exitSeen, exitRan, handlerCalls, handlerDone,
                   externals, init0, snapshot, fixedVars>>

\* line 44, second pass: networksetup -setsecurewebproxystate service Off
SetSecureWebProxyState ==
    /\ At({"dis2"})
    /\ secEnabled' = [secEnabled EXCEPT ![Cur(Top)] = FALSE]
    /\ cmds' = Append(cmds, Cmd(Top, "-setsecurewebproxystate", TRUE))
    /\ stack' = SetTop(Advance(Top))
    /\ UNCHANGED <<webEnabled, webTarget, secTarget, connected, primary, toggle, status,
                   error, exitcode, exitSeen, exitRan, handlerCalls, handlerDone,
                   externals, init0, snapshot, fixedVars>>

\* ---- wrap_proxy and wrap_mitmproxy

\* line 109: connected_service_names = self.connected_service_names()
WrapList ==
    /\ At({"w_list"})
    /\ JoinResolvable
    /\ stack' = SetTop(StartLoop(Top, "entry", connected_service_names))
    /\ snapshot' = connected_service_names
    /\ UNCHANGED <<osVars, toggle, status, error, exitcode, cmds, exitSeen, exitRan,
                   handlerCalls, handlerDone, externals, init0, fixedVars>>

\* line 111: if not self.proxy_enabled_for_service(service_name)
WrapEntryCheck ==
    /\ At({"w_read"})
    /\ ~RaisesKeyError(Cur(Top))
    /\ stack' = SetTop(
          IF EntryEnableCond(proxy_enabled_for_service(Cur(Top)))
          THEN [Top EXCEPT !.pc = "en1"]
          ELSE Advance(Top))
    /\ UNCHANGED <<osVars, toggle, status, error, exitcode, histVars, fixedVars>>

\* a variant of ExitNames: the exit loop enumerates the services again
ExitNamesFresh(f) == connected_service_names
\* line 116: the exit loop ranges over the local list taken at line 109
ExitNames(f) == f.names

\* lines 114 and 97: the generator yields, subprocess.check_call runs the wrapped
\* process and returns when it exited with 0; any other code raises
\* CalledProcessError, which the context manager throws into the generator at
\* the yield: wrap_proxy has no try/finally there, so the generator ends
CheckCall(code) ==
    /\ At({"guarded"})
    /\ exitcode' = code
    /\ IF code = 0
       THEN /\ stack' = SetTop(StartLoop(Top, "exit", ExitNames(Top)))
            /\ UNCHANGED <<status, error>>
       ELSE /\ stack' = <<>>
            /\ status' = "error"
            /\ error' = "CalledProcessError(wrapped)"
    /\ UNCHANGED <<osVars, toggle, histVars, fixedVars>>

\* line 117: if self.proxy_enabled_for_service(service_name)
WrapExitCheck ==
    /\ At({"x_read"})
    /\ ~RaisesKeyError(Cur(Top))
    /\ exitSeen' = Append(exitSeen, [service |-> Cur(Top), enabled |-> webEnabled[Cur(Top)]])
    /\ stack' = SetTop(
          IF ExitDisableCond(proxy_enabled_for_service(Cur(Top)))
          THEN [Top EXCEPT !.pc = "dis1"]
          ELSE Advance(Top))
    /\ UNCHANGED <<osVars, toggle, status, error, exitcode, cmds, exitRan, handlerCalls,
                   handlerDone, externals, init0, snapshot, fixedVars>>

\* the generator ends after the second loop; wrap_mitmproxy and main return
WrapReturn ==
    /\ At({"x_ret"})
    /\ stack' = <<>>
    /\ status' = "ok"
    /\ exitRan' = TRUE
    /\ UNCHANGED <<osVars, toggle, error, exitcode, cmds, exitSeen, handlerCalls,
                   handlerDone, externals, init0, snapshot, fixedVars>>

\* ---- the environment

\* lines 170-174: SIGINT is delivered; Python calls handler on top of the
\* interrupted code (also on top of a running handler), which calls toggle_proxy
Signal ==
    /\ Running
    /\ handlerCalls < MaxSignals
    /\ handlerCalls' = handlerCalls + 1
    /\ stack' = Append(stack, Frame("toggle", "t_primary"))
    /\ UNCHANGED <<osVars, toggle, status, error, exitcode, cmds, exitSeen, exitRan,
                   handlerDone, externals, init0, snapshot, fixedVars>>

\* another actor (the user, another tool) switches the web proxy of a service
ExternalToggle(s) ==
    /\ Running
    /\ externals < MaxExternal
    /\ externals' = externals + 1
    /\ webEnabled' = [webEnabled EXCEPT ![s] = ~webEnabled[s]]
    /\ UNCHANGED <<webTarget, secEnabled, secTarget, connected, primary, toggle, stack,
                   status, error, exitcode, cmds, exitSeen, exitRan, handlerCalls,
                   handlerDone, init0, snapshot, fixedVars>>

\* a service gets or loses its IPv4 state entry (a cable, a VPN, Wi-Fi)
ExternalConnectivity(s) ==
    /\ Running
    /\ connected' = IF s \in connected THEN connected \ {s} ELSE connected \cup {s}
    /\ UNCHANGED <<webEnabled, webTarget, secEnabled, secTarget, primary, toggle, stack,
                   status, error, exitcode, histVars, fixedVars>>

\* wrap_mitmproxy is called a second time after the first call has ended
\* (normally or with an exception), with the same port
SecondCall ==
    /\ ~toggle
    /\ status # "running"
    /\ run = 1
    /\ run' = 2
    /\ after1' = ProxyState
    /\ stack' = << Frame("wrap", "w_list") >>
    /\ status' = "running"
    /\ error' = "none"
    /\ exitcode' = -1
    /\ cmds' = <<>>
    /\ exitSeen' = <<>>
    /\ exitRan' = FALSE
    /\ snapshot' = <<>>
    /\ UNCHANGED <<osVars, toggle, handlerCalls, handlerDone, externals, init0,
                   noEnabledKey, primaryFault, unnamed, portRandom, sockBound, port>>

\* ---- main before the Wrapper exists: --port-random

\* the ports the OS may hand out for port 0
EphemeralPorts == {49152, 49153}
\* a variant of BoundAfterWith: the server socket is never closed
BoundAfterWithLeaked == TRUE
\* line 164: leaving the with block closes the TCPServer
BoundAfterWith == FALSE

\* lines 163-165: with socketserver.TCPServer(("localhost", 0), None) as s:
\* port = s.server_address[1]
BindRandomPort(p) ==
    /\ At({"m_port"})
    /\ portRandom
    /\ sockBound' = TRUE
    /\ port' = p
    /\ stack' = SetTop([Top EXCEPT !.pc = "m_close"])
    /\ UNCHANGED <<osVars, toggle, status, error, exitcode, histVars, run, after1,
                   noEnabledKey, primaryFault, unnamed, portRandom>>

\* line 163: no --port-random, the port stays args.port
KeepPort ==
    /\ At({"m_port"})
    /\ ~portRandom
    /\ stack' = SetTop([Top EXCEPT !.pc = "m_start"])
    /\ UNCHANGED <<osVars, toggle, status, error, exitcode, histVars, fixedVars>>

\* line 166: the with block ends
ReleasePort ==
    /\ At({"m_close"})
    /\ sockBound' = BoundAfterWith
    /\ stack' = SetTop([Top EXCEPT !.pc = "m_start"])
    /\ UNCHANGED <<osVars, toggle, status, error, exitcode, histVars, run, after1,
                   noEnabledKey, primaryFault, unnamed, portRandom, port>>

\* lines 168-181: the Wrapper is built with the port, the handler registered,
\* toggle_proxy or wrap_mitmproxy called
StartMain ==
    /\ At({"m_start"})
    /\ stack' = << IF toggle THEN Frame("toggle", "t_primary") ELSE Frame("wrap", "w_list") >>
    /\ UNCHANGED <<osVars, toggle, status, error, exitcode, histVars, fixedVars>>

\* lines 26-28: a networksetup command exits non-zero; check_output raises
\* CalledProcessError, nothing catches it
SetPcs == {"en1", "en2", "dis1", "dis2"}
GetPcs == {"t_state", "t_read1", "t_read2", "w_read", "x_read"}
SetCmdName(pc) ==
    CASE pc = "en1" -> "-setwebproxy"
      [] pc = "en2" -> "-setsecurewebproxy"
      [] pc = "dis1" -> "-setwebproxystate"
      [] pc = "dis2" -> "-setsecurewebproxystate"

\* the command that failed, as the history keeps it
FailedCmd(f) ==
    [by |-> By, phase |-> f.phase, ok |-> FALSE,
     cmd |-> IF f.pc \in SetPcs THEN SetCmdName(f.pc)
             ELSE IF f.pc \in GetPcs THEN "-getwebproxy"
             ELSE "-listnetworkserviceorder",
     service |-> IF f.pc \in SetPcs THEN Cur(f)
                 ELSE IF f.pc \in GetPcs THEN ReadService(f)
                 ELSE 0]

CommandFails ==
    /\ At(SetPcs \cup GetPcs \cup {"t_primary"})
    /\ cmds' = Append(cmds, FailedCmd(Top))
    /\ Raise("CalledProcessError(networksetup)")
    /\ UNCHANGED <<osVars, toggle, exitcode, exitSeen, exitRan, handlerCalls,
                   handlerDone, externals, init0, snapshot, fixedVars>>

\* line 68: the -getwebproxy output has no Enabled line
KeyErrorRaised ==
    /\ At(GetPcs)
    /\ RaisesKeyError(ReadService(Top))
    /\ Raise("KeyError(Enabled)")
    /\ UNCHANGED <<osVars, toggle, exitcode, histVars, fixedVars>>

\* lines 61, 65: no PrimaryInterface in the scutil output, or no service of
\* the listing has that device
PrimaryLookupFails ==
    /\ At({"t_primary"})
    /\ ~PrimaryResolvable
    /\ Raise(IF primaryFault = "no_interface"
             THEN "ValueError(PrimaryInterface)"
             ELSE "KeyError(interface)")
    /\ UNCHANGED <<osVars, toggle, exitcode, histVars, fixedVars>>

\* line 87: a listed service id has no UserDefinedName
ServiceNameLookupFails ==
    /\ At({"t_list", "w_list"})
    /\ ~JoinResolvable
    /\ Raise("ValueError(UserDefinedName)")
    /\ UNCHANGED <<osVars, toggle, exitcode, histVars, fixedVars>>

\* ---- specifications

ToggleStep ==
    \/ TogglePrimary
    \/ ToggleNewState
    \/ ToggleList
    \/ ToggleCheckDisable
    \/ ToggleCheckEnable
    \/ ToggleReturn

SetStep ==
    \/ SetWebProxy
    \/ SetSecureWebProxy
    \/ SetWebProxyState
    \/ SetSecureWebProxyState

WrapStep ==
    \/ WrapList
    \/ WrapEntryCheck
    \/ \E code \in ExitCodes : CheckCall(code)
    \/ WrapExitCheck
    \/ WrapReturn

Next ==
    \/ ToggleStep
    \/ SetStep
    \/ WrapStep
    \/ Signal
    \/ \E s \in Services : ExternalToggle(s)
    \/ CommandFails

\* The whole program: both modes, interrupts, other actors, failing commands.
\* The secure proxy starts in the state of the web proxy.
InitSpec == Init /\ secEnabled = webEnabled
Spec == InitSpec /\ [][Next]_vars

\* wrap mode without interrupts: every initial OS state, other actors,
\* failing commands, every exit code of the wrapped process
InitBracket == Init /\ ~toggle
NextBracket ==
    \/ WrapStep
    \/ SetStep
    \/ \E s \in Services : ExternalToggle(s)
    \/ CommandFails
SpecBracket == InitBracket /\ [][NextBracket]_vars

\* toggle mode alone: every initial OS state, failing commands
InitToggle == Init /\ toggle
NextToggle ==
    \/ ToggleStep
    \/ SetStep
    \/ CommandFails
SpecToggle == InitToggle /\ [][NextToggle]_vars

\* both modes, one call after the other: every initial OS state, failing
\* commands, every exit code of the wrapped process; no interrupt, no other actor
NextSeq ==
    \/ ToggleStep
    \/ SetStep
    \/ WrapStep
    \/ CommandFails
SpecSeq == Init /\ [][NextSeq]_vars

\* wrap mode while services connect and disconnect.  The secure proxy starts
\* in the state of the web proxy, every target is the other one.
InitSnapshot ==
    /\ InitOS
    /\ secEnabled = webEnabled
    /\ webTarget = [s \in Services |-> OtherTarget]
    /\ NoFaults
    /\ InitCall
    /\ ~toggle
    /\ InitRun
NextSnapshot ==
    \/ WrapStep
    \/ SetStep
    \/ \E s \in Services : ExternalConnectivity(s)
SpecSnapshot == InitSnapshot /\ [][NextSnapshot]_vars

\* wrap_mitmproxy called twice in sequence, no other actor, no failing command
NextTwice ==
    \/ WrapStep
    \/ SetStep
    \/ SecondCall
SpecTwice == InitBracket /\ [][NextTwice]_vars

\* main from the choice of the port on.  The secure proxy starts in the state
\* of the web proxy.
InitPort ==
    /\ InitOS
    /\ secEnabled = webEnabled
    /\ NoFaults
    /\ toggle \in BOOLEAN
    /\ portRandom \in BOOLEAN
    /\ stack = << Frame("main", "m_port") >>
    /\ sockBound = FALSE
    /\ port = DefaultPort
    /\ InitRun
PortStep ==
    \/ \E p \in EphemeralPorts : BindRandomPort(p)
    \/ KeepPort
    \/ ReleasePort
    \/ StartMain
NextPort ==
    \/ PortStep
    \/ ToggleStep
    \/ SetStep
    \/ WrapStep
SpecPort == InitPort /\ [][NextPort]_vars

\* both modes with faulty command output: services without an Enabled line,
\* an unresolvable primary service, service ids without a name.  The secure
\* proxy starts in the state of the web proxy, every target is the other one.
FaultStep ==
    \/ KeyErrorRaised
    \/ PrimaryLookupFails
    \/ ServiceNameLookupFails
InitFaults ==
    /\ InitOS
    /\ secEnabled = webEnabled
    /\ webTarget = [s \in Services |-> OtherTarget]
    /\ noEnabledKey \in SUBSET Services
    /\ primaryFault \in {"none", "no_interface", "no_service"}
    /\ unnamed \in SUBSET Services
    /\ InitCall
    /\ InitRun
NextFaults ==
    \/ ToggleStep
    \/ SetStep
    \/ WrapStep
    \/ FaultStep
SpecFaults == InitFaults /\ [][NextFaults]_vars

\* ---- what the history says

\* the services that got `cmd` in `phase`
Issued(phase, cmd) ==
    {cmds[j].service : j \in {k \in DOMAIN cmds : cmds[k].phase = phase /\ cmds[k].cmd = cmd}}
\* how often service s got `cmd`
Count(cmd, s) == Cardinality({j \in DOMAIN cmds : cmds[j].cmd = cmd /\ cmds[j].service = s})
\* how often service s got `cmd` in `phase`
CountIn(phase, cmd, s) ==
    Cardinality({j \in DOMAIN cmds :
                    cmds[j].phase = phase /\ cmds[j].cmd = cmd /\ cmds[j].service = s})
EntryEnabled == Issued("entry", "-setwebproxy")
ExitDisabled == Issued("exit", "-setwebproxystate")
\* the exit phase queried s and the OS held Enabled: Yes
SeenEnabledAtExit(s) == \E j \in DOMAIN exitSeen : exitSeen[j].service = s /\ exitSeen[j].enabled
QueriedAtExit(s) == \E j \in DOMAIN exitSeen : exitSeen[j].service = s
\* the exit phase has decided to disable s and is about to issue the command
DisablePending(s) ==
    /\ Running
    /\ stack[1].phase = "exit"
    /\ stack[1].pc = "dis1"
    /\ Cur(stack[1]) = s
GuardedFailed == status = "error" /\ error = "CalledProcessError(wrapped)"
Range(seq) == {seq[j] : j \in DOMAIN seq}
\* wrap_proxy has yielded and the wrapped process has not ended
AtGuarded == Running /\ stack[1].pc = "guarded"
\* lines 184-186: main returns (exit status 0) or an exception reaches the top
\* level, which Python reports with exit status 1; -1 while the process runs
ProcessExitCode ==
    CASE status = "ok" -> 0
      [] status = "error" -> 1
      [] OTHER -> -1

\* ---- claims

\* C1: when the wrapped process fails, the exit phase of wrap_proxy still runs
\* to its end before the error is the result
C1_CleanupBeforeGuardedError == GuardedFailed => exitRan

\* C2: in wrap mode, once an interrupt was handled and the process has ended
\* normally, no connected service has its proxy enabled
C2_InterruptLeavesNoProxy ==
    (~toggle /\ status = "ok" /\ handlerCalls > 0 /\ externals = 0)
        => \A s \in connected : ~webEnabled[s]

\* C3: after wrap_proxy has run, every connected service has the Enabled
\* state it had before
C3_RestoresOriginal ==
    (~toggle /\ status = "ok") => \A s \in connected : webEnabled[s] = init0.web[s]

\* C4: the services disabled in the exit phase are exactly the services
\* enabled in the entry phase
C4_ExitSetIsEntrySet == (~toggle /\ status = "ok") => ExitDisabled = EntryEnabled

\* C5: in the exit phase a snapshot service gets a disable if and only if the
\* OS reported it enabled when the exit phase queried it; a service found
\* disabled then (say, switched off by another actor) gets none
C5_ExitDisablesIffEnabledAtExit ==
    status # "error" =>
        \A s \in Services :
            /\ (s \in ExitDisabled \/ DisablePending(s)) <=> SeenEnabledAtExit(s)
            /\ CountIn("exit", "-setwebproxystate", s) <= 1

\* C5 witness: the entry phase enabled a service, another actor switched it
\* off, the exit phase queried it and sent it no disable
C5_Witness ==
    /\ status = "ok"
    /\ externals > 0
    /\ \E s \in EntryEnabled : QueriedAtExit(s) /\ ~SeenEnabledAtExit(s) /\ s \notin ExitDisabled

\* C6 as claimed: primary enabled at the start => all connected services end
\* disabled; primary disabled => all end enabled with target 127.0.0.1:port
C6_Original ==
    (toggle /\ status = "ok") =>
        IF init0.web[primary]
        THEN \A s \in connected : ~webEnabled[s]
        ELSE \A s \in connected : webEnabled[s] /\ webTarget[s] = [host |-> "127.0.0.1", port |-> DefaultPort]

\* C6 amended: primary enabled at the start => all connected services end
\* disabled; primary disabled => all end enabled, those that were disabled
\* with target 127.0.0.1:port, those already enabled with the target they had
C6_ToggleCorrect ==
    (toggle /\ status = "ok") =>
        IF init0.web[primary]
        THEN \A s \in connected : ~webEnabled[s]
        ELSE \A s \in connected :
                /\ webEnabled[s]
                /\ ~init0.web[s] => webTarget[s] = [host |-> "127.0.0.1", port |-> DefaultPort]
                /\ init0.web[s] => webTarget[s] = init0.target[s]

\* C6 witness: toggle_proxy finished with the primary disabled at the start and
\* another connected service already enabled towards another target
C6_Witness ==
    /\ toggle
    /\ status = "ok"
    /\ ~init0.web[primary]
    /\ webTarget[primary] = [host |-> "127.0.0.1", port |-> DefaultPort]
    /\ \E s \in connected : init0.web[s] /\ init0.target[s] = OtherTarget /\ webEnabled[s]

\* C7: toggle_proxy sends an enable or a disable only to connected services
\* whose Enabled differs from the target state (the negation of the primary's),
\* once each; with the primary enabled no service gets an enable
C7_ReadBeforeWrite ==
    toggle =>
        \A s \in Services :
            LET target == ~init0.web[primary]
                en == IF s \in connected /\ ~init0.web[s] /\ target THEN 1 ELSE 0
                dis == IF s \in connected /\ init0.web[s] /\ ~target THEN 1 ELSE 0
            IN /\ Count("-setwebproxy", s) <= en
               /\ Count("-setwebproxystate", s) <= dis
               /\ status = "ok" =>
                     Count("-setwebproxy", s) = en /\ Count("-setwebproxystate", s) = dis

\* C7 witness: every service connected and enabled, primary enabled:
\* toggle_proxy finished with one disable per service and no enable
C7_Witness ==
    /\ toggle
    /\ status = "ok"
    /\ connected = Services
    /\ \A s \in Services :
          init0.web[s] /\ Count("-setwebproxystate", s) = 1 /\ Count("-setwebproxy", s) = 0

\* C8: when the first command of an enable or disable fails, the second
\* command for that service is issued all the same
C8_SecondCommandAttempted ==
    status # "running" =>
        \A j \in DOMAIN cmds :
            (cmds[j].cmd \in {"-setwebproxy", "-setwebproxystate"} /\ ~cmds[j].ok)
                => /\ j + 1 \in DOMAIN cmds
                   /\ cmds[j + 1].service = cmds[j].service
                   /\ cmds[j + 1].cmd \in {"-setsecurewebproxy", "-setsecurewebproxystate"}

\* C9: the exit phase of wrap_proxy and the handler's toggle_proxy never both
\* run to completion in one process
C9_OnlyOnePathCompletes == ~(exitRan /\ handlerDone > 0)

\* C10: the handler's toggle_proxy is invoked at most once per process
C10_HandlerAtMostOnce == handlerCalls <= 1

\* C13: a service whose -getwebproxy output has no Enabled line never gets an
\* enable or a disable, and an operation that has to query it ends in an
\* error: toggle_proxy and wrap_mitmproxy do not complete, the wrapped process
\* is not started
C13_MissingEnabledIsError ==
    /\ \A j \in DOMAIN cmds : cmds[j].service \notin noEnabledKey
    /\ status = "ok" =>
          /\ connected \cap noEnabledKey = {}
          /\ toggle => primary \notin noEnabledKey
    /\ exitcode # -1 => connected \cap noEnabledKey = {}
    /\ (status = "error" /\ primaryFault = "none" /\ connected \cap unnamed = {}
            /\ error # "CalledProcessError(wrapped)")
          => error = "KeyError(Enabled)"

\* C13 witness: an operation enabled one service and then ended with the
\* KeyError on a connected service without the Enabled line
C13_Witness ==
    /\ status = "error"
    /\ error = "KeyError(Enabled)"
    /\ cmds # <<>>
    /\ connected \cap noEnabledKey # {}

\* C14: when the primary service cannot be resolved, toggle_proxy ends in an
\* error without having issued a command and the proxy state is what it was
C14_NoPrimaryNoCommand ==
    (toggle /\ primaryFault # "none") =>
        /\ cmds = <<>>
        /\ ProxyState = init0
        /\ status # "ok"
        /\ status = "error" =>
              error \in {"ValueError(PrimaryInterface)", "KeyError(interface)"}

\* C14 witness: toggle_proxy ended because no service maps to the primary
\* interface, with services it would otherwise have switched
C14_Witness ==
    /\ toggle
    /\ status = "error"
    /\ error = "KeyError(interface)"
    /\ \E s \in connected : ~webEnabled[s]

\* C15: the enumeration of the connected services never fails on a service id
\* that has no name: the id is skipped and the others are returned
C15_JoinSkipsUnresolved ==
    /\ error # "ValueError(UserDefinedName)"
    /\ (status = "ok" /\ ~toggle) => snapshot = SortedSeq(connected \ unnamed)

\* C12: a failed networksetup command is the last command of the process: it
\* is not issued again, no command follows it, the process has ended with its
\* error; after a failure in the entry phase the wrapped process was never
\* started, and the exit phase queries no service twice
C12_FailFast ==
    /\ \A j \in DOMAIN cmds :
          ~cmds[j].ok =>
              /\ j = Len(cmds)
              /\ status = "error"
              /\ error = "CalledProcessError(networksetup)"
              /\ stack = <<>>
              /\ cmds[j].phase = "entry" => exitcode = -1
              /\ cmds[j].phase = "exit" => ~exitRan
    /\ \A j, k \in DOMAIN exitSeen : exitSeen[j].service = exitSeen[k].service => j = k

\* C12 witness: the exit phase disabled one service, then a command for the
\* next service failed
C12_Witness ==
    \E j \in DOMAIN cmds :
        /\ ~cmds[j].ok
        /\ cmds[j].phase = "exit"
        /\ \E k \in 1..(j - 1) : cmds[k].phase = "exit" /\ cmds[k].service # cmds[j].service

\* C16: in wrap mode the process exits with the code of the wrapped process
\* (when no networksetup command failed); in toggle mode it exits with 0 when
\* toggle_proxy succeeded
C16_ExitCodePropagated ==
    /\ (~toggle /\ status # "running" /\ exitcode # -1
           /\ error # "CalledProcessError(networksetup)")
          => ProcessExitCode = exitcode
    /\ (toggle /\ status = "ok") => ProcessExitCode = 0

\* C18: without other actors, the entry phase sends an enable to a connected
\* service only if it was disabled, sends nothing else, and when the wrapped
\* process starts every connected service that was disabled has got exactly
\* one enable and is enabled towards 127.0.0.1 and the port, and every
\* connected service is enabled
C18_EntryEnablesDisabled ==
    (~toggle /\ externals = 0) =>
        LET want == {s \in connected : ~init0.web[s]}
        IN /\ EntryEnabled \subseteq want
           /\ \A j \in DOMAIN cmds :
                 cmds[j].phase = "entry" =>
                     cmds[j].cmd \in {"-setwebproxy", "-setsecurewebproxy", "-getwebproxy"}
           /\ AtGuarded =>
                 /\ EntryEnabled = want
                 /\ \A s \in connected : webEnabled[s]
                 /\ \A s \in want :
                       /\ webTarget[s] = [host |-> "127.0.0.1", port |-> port]
                       /\ CountIn("entry", "-setwebproxy", s) = 1
                       /\ CountIn("entry", "-setsecurewebproxy", s) = 1
                 /\ \A s \in connected \ want : webTarget[s] = init0.target[s]

\* C18 witness: the wrapped process is about to start; one connected service
\* was enabled towards another target and kept it, another was disabled
C18_Witness ==
    /\ AtGuarded
    /\ externals = 0
    /\ \E s \in connected : init0.web[s] /\ webTarget[s] = OtherTarget
    /\ \E s \in connected : ~init0.web[s] /\ webEnabled[s]

\* C20: when the web proxy and the secure web proxy of every connected
\* service agree at the start and no command fails, they agree for every
\* connected service when toggle_proxy or wrap_mitmproxy has ended
C20_PlainSecureAgree ==
    (/\ \A s \in connected : init0.sec[s] = init0.web[s]
     /\ status # "running"
     /\ error # "CalledProcessError(networksetup)")
        => \A s \in connected : secEnabled[s] = webEnabled[s]

\* C20 witness: toggle_proxy enabled the connected services, which agreed at
\* the start, while a service that is not connected disagrees
C20_Witness ==
    /\ toggle
    /\ status = "ok"
    /\ \A s \in connected : init0.sec[s] = init0.web[s] /\ webEnabled[s] /\ secEnabled[s]
    /\ \E s \in connected : ~init0.web[s]
    /\ \E s \in Services \ connected : secEnabled[s] # webEnabled[s]

\* the proxy state p has the same enabled services as q, with the same targets
SameEnabled(p, q) ==
    \A s \in Services : p.web[s] = q.web[s] /\ (p.web[s] => p.target[s] = q.target[s])

\* C11: after the second of two calls of wrap_mitmproxy in sequence the set
\* of enabled services and their targets are what they were after the first
C11_SecondCallSameState ==
    (run = 2 /\ status # "running") => SameEnabled(ProxyState, after1)

\* C17: while main holds the socket it bound to find a free port, no proxy
\* command has been issued, the Wrapper has not started and the wrapped
\* process has not been spawned; a proxy enabled by this run points to the port
C17_PortReleasedBeforeUse ==
    /\ sockBound =>
          /\ cmds = <<>>
          /\ exitcode = -1
          /\ Running
          /\ stack[1].fn = "main"
    /\ \A j \in DOMAIN cmds :
          (cmds[j].cmd = "-setwebproxy" /\ j = Len(cmds) /\ Running)
              => webTarget[cmds[j].service].port = port

\* C17 witness: --port-random, the wrapped process is about to be spawned
\* with the random port, a service was enabled towards it, the socket is closed
C17_Witness ==
    /\ portRandom
    /\ AtGuarded
    /\ port \in EphemeralPorts
    /\ ~sockBound
    /\ \E s \in connected : webEnabled[s] /\ webTarget[s].port = port

\* C19: the exit phase queries and disables only services of the list taken
\* on entry, never one that connected later, and when wrap_proxy ends it has
\* queried every service of that list, connected or not
C19_ExitUsesSnapshot ==
    /\ \A j \in DOMAIN exitSeen : exitSeen[j].service \in Range(snapshot)
    /\ \A j \in DOMAIN cmds : cmds[j].phase = "exit" => cmds[j].service \in Range(snapshot)
    /\ status = "ok" => \A s \in Range(snapshot) : QueriedAtExit(s)

\* C19 witness: wrap_proxy ended; a service connected after the entry was
\* never queried, a service of the list that disconnected was disabled at exit
C19_Witness ==
    /\ status = "ok"
    /\ \E s \in connected : s \notin Range(snapshot) /\ ~QueriedAtExit(s) /\ webEnabled[s]
    /\ \E s \in Range(snapshot) : s \notin connected /\ s \in ExitDisabled

====
